---- MODULE Spec2Model ----
(***************************************************************************)
(* Model of src/app/dashboard/meetings/page.tsx: the server-rendered       *)
(* "meetings" dashboard page.  The page resolves the session, looks the    *)
(* user up, lists the user's calendar events through the Nylas client,     *)
(* extracts start / end / meeting url from each event and renders one      *)
(* cancel form per event.                                                  *)
(*                                                                         *)
(* JavaScript values are tagged records, so that undefined, null, 0 and "" *)
(* stay distinct:  [t |-> "undefined"], [t |-> "null"],                    *)
(* [t |-> "number", n |-> 3], [t |-> "string", s |-> "x"],                 *)
(* [t |-> "array", a |-> <<...>>], [t |-> "object", ...].                  *)
(* A property that is absent from an object reads as undefined.            *)
(***************************************************************************)
EXTENDS Integers, Sequences, FiniteSets, TLC

VARIABLES
    now,         \* unix time of the request (environment; the code never reads it)
    pc,          \* position of MeetingsPage: "auth", "findUser", "listEvents", "rendered",
                 \* "failed"; "idle" in the helper specification
    userId,      \* session?.user?.id handed to getData
    nylasCalls,  \* arguments of every nylas.events.list call made so far
    data,        \* what getData returned
    view,        \* the element tree MeetingsPage returned (None before it returns)
    userData,    \* what prisma.user.findUnique resolved to (None before it does)
    error,       \* message of the Error the page threw (None when it did not)
    input,       \* helper specification: the argument drawn for a helper
    out          \* helper specification: the helper applied and what it returned

vars == <<now, pc, userId, userData, nylasCalls, data, view, error, input, out>>

pageVars == <<now, pc, userId, userData, nylasCalls, data, view, error>>

\* ---------------------------------------------------------------- bounds
MaxTime == 1

MaxEvents == 2

\* ------------------------------------------------------------- JS values
Undef == [t |-> "undefined"]

Null == [t |-> "null"]

Num(n) == [t |-> "number", n |-> n]

Str(s) == [t |-> "string", s |-> s]

Arr(a) == [t |-> "array", a |-> a]

None == [t |-> "none"]

Nullish(v) == v = Undef \/ v = Null

\* a ?? b
Coalesce(a, b) == IF Nullish(a) THEN b ELSE a

\* !v for the values the page handles (undefined, null, 0 and "" are falsy)
Falsy(v) == v = Undef \/ v = Null \/ v = Num(0) \/ v = Str("")

\* ---------------------------------------------------------------- types
\* One element of When.times; the vendor's list may also hold holes.
TimeSpan(s, e) == [t |-> "object", start_time |-> s, end_time |-> e]

\* interface When: every declared property, absent ones reading undefined.
When(st, et, s, e, tm, tms, d, ds) ==
    [t |-> "object", start_time |-> st, end_time |-> et, start |-> s, end |-> e,
     time |-> tm, times |-> tms, date |-> d, dates |-> ds]

\* interface Conferencing; details is undefined, null or an object with url.
Details(u) == [t |-> "object", url |-> u]

Conferencing(d, u) == [t |-> "object", details |-> d, url |-> u]

\* ------------------------------------------------------------- helpers
\* when.times?.[0]
FirstSpan(when) ==
    IF Nullish(when.times) THEN Undef
    ELSE IF Len(when.times.a) = 0 THEN Undef
    ELSE when.times.a[1]

getStartTimeTimeFirst(when) ==
    Coalesce(Coalesce(Coalesce(Coalesce(when.time, when.start_time), when.start),
                      IF Nullish(FirstSpan(when)) THEN Undef ELSE FirstSpan(when).start_time),
             Null)

getStartTime(when) ==
    Coalesce(Coalesce(Coalesce(Coalesce(when.start_time, when.start), when.time),
                      IF Nullish(FirstSpan(when)) THEN Undef ELSE FirstSpan(when).start_time),
             Null)

getEndTimeWithTime(when) ==
    Coalesce(Coalesce(Coalesce(Coalesce(when.end_time, when.end), when.time),
                      IF Nullish(FirstSpan(when)) THEN Undef ELSE FirstSpan(when).end_time),
             Null)

getEndTime(when) ==
    Coalesce(Coalesce(Coalesce(when.end_time, when.end),
                      IF Nullish(FirstSpan(when)) THEN Undef ELSE FirstSpan(when).end_time),
             Null)

getMeetingUrlTopFirst(conferencing) ==
    IF Nullish(conferencing) THEN Null
    ELSE Coalesce(Coalesce(conferencing.url,
                           IF Nullish(conferencing.details) THEN Undef
                           ELSE conferencing.details.url),
                  Null)

\* conferencing?.details?.url ?? conferencing?.url ?? null
getMeetingUrl(conferencing) ==
    IF Nullish(conferencing) THEN Null
    ELSE Coalesce(Coalesce(IF Nullish(conferencing.details) THEN Undef
                           ELSE conferencing.details.url,
                           conferencing.url),
                  Null)

\* ------------------------------------------------------------- getData
\* participants?.map(p => ({ name: p.name ?? "" })) ?? []
NormalizeParticipants(ps) ==
    IF Nullish(ps) THEN Arr(<<>>)
    ELSE Arr([i \in 1..Len(ps.a) |-> [name |-> Coalesce(ps.a[i].name, Str(""))]])

\* { ...event, title: event.title ?? "", participants: ... }
NormalizeEvent(event) ==
    [event EXCEPT !.title = Coalesce(event.title, Str("")),
                  !.participants = NormalizeParticipants(event.participants)]

\* response.data.map(...)
NormalizeResponse(resp) == [i \in 1..Len(resp) |-> NormalizeEvent(resp[i])]

\* The three guards of getData, in order; None when all pass.
UserErrorEmailFirst(u) ==
    IF Falsy(u) THEN Str("User not found")
    ELSE IF Falsy(u.grantEmail) THEN Str("User grantEmail not found")
    ELSE IF Falsy(u.grantId) THEN Str("User grantId not found")
    ELSE None

UserError(u) ==
    IF Falsy(u) THEN Str("User not found")
    ELSE IF Falsy(u.grantId) THEN Str("User grantId not found")
    ELSE IF Falsy(u.grantEmail) THEN Str("User grantEmail not found")
    ELSE None

\* The argument of nylas.events.list
ListRequest(u) == [identifier |-> u.grantId, calendarId |-> u.grantEmail]

\* -------------------------------------------------------- MeetingsPage
\* format(fromUnixTime(t), pattern): kept as the call, the text is date-fns'
Format(time, pattern) == [pattern |-> pattern, unix |-> time.n]

\* item.participants[0]?.name || 'participant'
ParticipantLabel(item) ==
    IF Len(item.participants.a) = 0 THEN Str("participant")
    ELSE IF Falsy(item.participants.a[1].name) THEN Str("participant")
    ELSE item.participants.a[1].name

\* The callback of data.map: null, or the cancel form of the item.
RenderItem(item) ==
    LET startTime == getStartTime(item.when)
        endTime == getEndTime(item.when)
        meetingUrl == getMeetingUrl(item.conferencing)
    IN IF Falsy(startTime) \/ Falsy(endTime) THEN Null
       ELSE [t |-> "form",
             key |-> item.id,
             action |-> "cancelMeetingAction",
             eventId |-> item.id,
             day |-> Format(startTime, "EEE, dd MMM"),
             from |-> Format(startTime, "hh:mm a"),
             to |-> Format(endTime, "hh:mm a"),
             joinMeeting |-> IF Falsy(meetingUrl) THEN None ELSE [href |-> meetingUrl],
             title |-> item.title,
             with |-> ParticipantLabel(item),
             submit |-> "Cancel Event"]

RECURSIVE ChildrenReversed(_)
ChildrenReversed(elems) ==
    IF Len(elems) = 0 THEN <<>>
    ELSE IF elems[1] = Null THEN ChildrenReversed(Tail(elems))
    ELSE ChildrenReversed(Tail(elems)) \o <<elems[1]>>

\* The children React shows for an array of elements and nulls.
RECURSIVE Children(_)
Children(elems) ==
    IF Len(elems) = 0 THEN <<>>
    ELSE IF elems[1] = Null THEN Children(Tail(elems))
    ELSE <<elems[1]>> \o Children(Tail(elems))

PageViewUpcomingOnly(d) ==
    IF Len(d) = 0
    THEN [t |-> "EmptyState", title |-> "No meetings found", rows |-> <<>>]
    ELSE [t |-> "Card", title |-> "Bookings",
          rows |-> Children([i \in 1..Len(d) |->
                      IF RenderItem(d[i]) # Null /\ RenderItem(d[i]).from.unix < now
                      THEN Null ELSE RenderItem(d[i])])]

\* The element MeetingsPage returns for the fetched data.
PageView(d) ==
    IF Len(d) = 0
    THEN [t |-> "EmptyState", title |-> "No meetings found", rows |-> <<>>]
    ELSE [t |-> "Card", title |-> "Bookings",
          rows |-> Children([i \in 1..Len(d) |-> RenderItem(d[i])])]

\* ------------------------------------------------------------- inputs
Timestamps == 0..MaxTime

\* The request arrives at a positive unix time, possibly after every event.
RequestTimes == 1..(MaxTime + 1)

NoWhen == When(Undef, Undef, Undef, Undef, Undef, Undef, Undef, Undef)

\* The shapes of "when" the vendor documents, with timestamps up to MaxTime.
PageWhens ==
    {[NoWhen EXCEPT !.time = Num(x)] : x \in Timestamps}
    \cup {[NoWhen EXCEPT !.start_time = Num(p[1]), !.end_time = Num(p[2])] :
            p \in {q \in Timestamps \X Timestamps : q[1] <= q[2]}}
    \cup {[NoWhen EXCEPT !.start = Num(p[1]), !.end = Num(p[2])] :
            p \in {q \in Timestamps \X Timestamps : q[1] <= q[2]}}
    \cup {[NoWhen EXCEPT !.times = Arr(<<TimeSpan(Num(p[1]), Num(p[2]))>>)] :
            p \in {q \in Timestamps \X Timestamps : q[1] <= q[2]}}
    \cup {[NoWhen EXCEPT !.times = Arr(<<>>)],
          [NoWhen EXCEPT !.date = Str("2025-01-31")],
          [NoWhen EXCEPT !.dates = Arr(<<Str("2025-01-31"), Str("2025-02-01")>>)]}

PageConfs == {Undef, Conferencing(Details(Str("https://meet.example/a")), Undef)}

VendorEvent(w, c, title, ps) ==
    [when |-> w, conferencing |-> c, title |-> title, participants |-> ps]

\* Events as the vendor returns them (before getData's defaults).
VendorEvents ==
    {VendorEvent(w, c, Str("Intro call"), Arr(<<[name |-> Str("Ana")]>>)) :
        w \in PageWhens, c \in PageConfs}
    \cup {VendorEvent([NoWhen EXCEPT !.start_time = Num(MaxTime), !.end_time = Num(MaxTime)],
                      Undef, Undef, ps) :
            ps \in {Undef, Arr(<<>>), Arr(<<[name |-> Undef]>>)}}
    \cup {VendorEvent([NoWhen EXCEPT !.start = Num(MaxTime), !.end = Num(MaxTime)],
                      c, Str(""), Arr(<<[name |-> Str("")]>>)) :
            c \in {Null, Conferencing(Undef, Str("")),
                   Conferencing(Null, Str("https://meet.example/b"))}}

\* The response built from n vendor events; the vendor's ids are distinct.
Response(n, f) == [i \in 1..n |-> [id |-> i] @@ f[i]]

UserRecords ==
    [grantId : {Null, Str(""), Str("grant-1")},
     grantEmail : {Null, Str(""), Str("ana@example.com")}]

\* ------------------------------------------------------ page actions
Init ==
    /\ now \in RequestTimes
    /\ pc = "auth"
    /\ userId = None
    /\ userData = None
    /\ nylasCalls = <<>>
    /\ data = None
    /\ view = None
    /\ error = None
    /\ input = None
    /\ out = None

\* const session = await auth(); session?.user?.id
Auth ==
    /\ pc = "auth"
    /\ \E id \in {Undef, Str("user-1")} : userId' = id
    /\ pc' = "findUser"
    /\ UNCHANGED <<now, userData, nylasCalls, data, view, error, input, out>>

\* prisma.user.findUnique resolves; getData runs its guards and, when they pass,
\* calls nylas.events.list.
FindUser ==
    /\ pc = "findUser"
    /\ \E u \in (IF userId = Undef THEN {Null} ELSE UserRecords \cup {Null}) :
         /\ userData' = u
         /\ IF UserError(u) # None
            THEN /\ error' = UserError(u)
                 /\ pc' = "failed"
                 /\ UNCHANGED nylasCalls
            ELSE /\ nylasCalls' = Append(nylasCalls, ListRequest(u))
                 /\ pc' = "listEvents"
                 /\ UNCHANGED error
    /\ UNCHANGED <<now, userId, data, view, input, out>>

\* prisma.user.findUnique rejects (invalid query, database down).
FindUserRejects ==
    /\ pc = "findUser"
    /\ error' = Str("prisma.user.findUnique rejected")
    /\ pc' = "failed"
    /\ UNCHANGED <<now, userId, userData, nylasCalls, data, view, input, out>>

\* nylas.events.list resolves; getData returns the events with defaults and
\* MeetingsPage returns its element.
ListEvents ==
    /\ pc = "listEvents"
    /\ \E n \in 0..MaxEvents :
         \E f \in [1..n -> VendorEvents] :
           /\ data' = NormalizeResponse(Response(n, f))
           /\ view' = PageView(NormalizeResponse(Response(n, f)))
    /\ pc' = "rendered"
    /\ UNCHANGED <<now, userId, userData, nylasCalls, error, input, out>>

\* nylas.events.list rejects.
ListEventsRejects ==
    /\ pc = "listEvents"
    /\ error' = Str("nylas.events.list rejected")
    /\ pc' = "failed"
    /\ UNCHANGED <<now, userId, userData, nylasCalls, data, view, input, out>>

Next == Auth \/ FindUser \/ FindUserRejects \/ ListEvents \/ ListEventsRejects

Spec == Init /\ [][Next]_vars

\* ----------------------------------------------- helper specification
\* Values a numeric property of "when" may hold.
FnVals == {Undef, Null, Num(0), Num(MaxTime)}

FnTimes ==
    {Undef, Null, Arr(<<>>), Arr(<<Null>>),
     Arr(<<TimeSpan(Num(0), Num(0)), TimeSpan(Num(MaxTime), Num(MaxTime))>>),
     Arr(<<TimeSpan(Num(MaxTime), Num(MaxTime)), TimeSpan(Num(0), Num(0))>>)}
    \cup {Arr(<<TimeSpan(x, y)>>) : x \in FnVals, y \in FnVals}

FnDates ==
    {<<Undef, Undef>>, <<Str("2025-01-31"), Undef>>, <<Undef, Arr(<<Str("2025-01-31")>>)>>}

FnUrls == {Undef, Null, Str(""), Str("https://meet.example/a"), Str("https://meet.example/b")}

AllConfs ==
    {Undef, Null}
    \cup {Conferencing(d, u) :
            d \in {Undef, Null} \cup {Details(x) : x \in FnUrls}, u \in FnUrls}

InitFn ==
    /\ now = 1
    /\ pc = "idle"
    /\ userId = None
    /\ userData = None
    /\ nylasCalls = <<>>
    /\ data = None
    /\ view = None
    /\ error = None
    /\ out = None
    /\ \/ \E st \in FnVals, et \in FnVals, s \in FnVals, e \in FnVals, tm \in FnVals,
            tms \in FnTimes, d \in FnDates :
            input = [kind |-> "when", arg |-> When(st, et, s, e, tm, tms, d[1], d[2])]
       \/ \E c \in AllConfs :
            input = [kind |-> "conferencing", arg |-> c]
       \/ \E w \in PageWhens, c \in AllConfs :
            input = [kind |-> "item",
                     arg |-> [id |-> 1] @@ NormalizeEvent(
                               VendorEvent(w, c, Str("Intro call"), Arr(<<>>)))]

CallGetStartTime ==
    /\ input # None /\ input.kind = "when" /\ out = None
    /\ out' = [fn |-> "getStartTime", ret |-> getStartTime(input.arg)]
    /\ UNCHANGED <<pageVars, input>>

CallGetEndTime ==
    /\ input # None /\ input.kind = "when" /\ out = None
    /\ out' = [fn |-> "getEndTime", ret |-> getEndTime(input.arg)]
    /\ UNCHANGED <<pageVars, input>>

CallGetMeetingUrl ==
    /\ input # None /\ input.kind = "conferencing" /\ out = None
    /\ out' = [fn |-> "getMeetingUrl", ret |-> getMeetingUrl(input.arg)]
    /\ UNCHANGED <<pageVars, input>>

CallRenderItem ==
    /\ input # None /\ input.kind = "item" /\ out = None
    /\ out' = [fn |-> "RenderItem", ret |-> RenderItem(input.arg)]
    /\ UNCHANGED <<pageVars, input>>

NextFn == CallGetStartTime \/ CallGetEndTime \/ CallGetMeetingUrl \/ CallRenderItem

SpecFn == InitFn /\ [][NextFn]_vars

\* ------------------------------------------------- helper properties
\* times[0][field]: undefined when there is no first span.
TimesHead(w, field) ==
    IF w.times = Undef \/ w.times = Null THEN Undef
    ELSE IF w.times.a = <<>> THEN Undef
    ELSE IF Head(w.times.a) = Undef \/ Head(w.times.a) = Null THEN Undef
    ELSE Head(w.times.a)[field]

\* The first candidate that is neither null nor undefined; null when none is.
FirstDefined(c) ==
    IF \A i \in DOMAIN c : c[i] \in {Undef, Null} THEN Null
    ELSE c[CHOOSE i \in DOMAIN c :
             /\ c[i] \notin {Undef, Null}
             /\ \A j \in DOMAIN c : j < i => c[j] \in {Undef, Null}]

StartCandidates(w) == <<w.start_time, w.start, w.time, TimesHead(w, "start_time")>>

EndCandidates(w) == <<w.end_time, w.end, TimesHead(w, "end_time")>>

Returned(fn) == out # None /\ out.fn = fn

\* C2: getStartTime returns, for every "when", the first of start_time, start,
\* time, times[0].start_time that is neither null nor undefined (0 included),
\* and null exactly when all four are null or undefined; it is applicable to
\* every "when" (times absent, null, empty or holding a hole).
C2_GetStartTimeFirstDefined ==
    /\ (input # None /\ input.kind = "when" /\ out = None) => ENABLED CallGetStartTime
    /\ Returned("getStartTime") =>
         /\ out.ret = FirstDefined(StartCandidates(input.arg))
         /\ out.ret = Null <=>
              \A i \in 1..4 : StartCandidates(input.arg)[i] \in {Undef, Null}
         /\ (input.arg.start_time \in {Undef, Null} /\ input.arg.start = Num(0))
              => out.ret = Num(0)

\* C2 witness: the first three are null/undefined and times[0].start_time is 0.
C2_Witness ==
    /\ Returned("getStartTime")
    /\ input.arg.start_time = Null
    /\ input.arg.start = Undef
    /\ input.arg.time = Undef
    /\ input.arg.times = Arr(<<TimeSpan(Num(0), Null)>>)
    /\ out.ret = Num(0)

\* C3: getEndTime returns, for every "when", the first of end_time, end,
\* times[0].end_time that is neither null nor undefined, and null exactly when
\* all three are null or undefined; "time" is never used as an end.
C3_GetEndTimeFirstDefined ==
    /\ (input # None /\ input.kind = "when" /\ out = None) => ENABLED CallGetEndTime
    /\ Returned("getEndTime") =>
         /\ out.ret = FirstDefined(EndCandidates(input.arg))
         /\ out.ret = Null <=>
              \A i \in 1..3 : EndCandidates(input.arg)[i] \in {Undef, Null}

\* C3 witness: only the single time is set, and the end is null.
C3_Witness ==
    /\ Returned("getEndTime")
    /\ input.arg.time = Num(MaxTime)
    /\ input.arg.end_time = Undef
    /\ input.arg.end = Null
    /\ input.arg.times = Arr(<<>>)
    /\ out.ret = Null

\* conferencing.details.url, else conferencing.url, else null.
ExpectedUrl(c) ==
    LET inner == IF c \in {Undef, Null} THEN Undef
                 ELSE IF c.details \in {Undef, Null} THEN Undef
                 ELSE c.details.url
        outer == IF c \in {Undef, Null} THEN Undef ELSE c.url
    IN FirstDefined(<<inner, outer>>)

NonEmptyString(v) == v.t = "string" /\ v.s # ""

\* C4: getMeetingUrl returns details.url when that is neither null nor undefined,
\* else url when that is neither, else null, for every conferencing value; a
\* rendered row holds the "Join Meeting" link exactly when that value is a
\* non-empty string, and the link points to it.
C4_GetMeetingUrlAndJoinLink ==
    /\ (input # None /\ input.kind = "conferencing" /\ out = None)
         => ENABLED CallGetMeetingUrl
    /\ Returned("getMeetingUrl") => out.ret = ExpectedUrl(input.arg)
    /\ (Returned("RenderItem") /\ out.ret # Null) =>
         /\ out.ret.joinMeeting # None
              <=> NonEmptyString(ExpectedUrl(input.arg.conferencing))
         /\ out.ret.joinMeeting # None
              => out.ret.joinMeeting.href = ExpectedUrl(input.arg.conferencing)

\* C4 witness: a rendered row whose url is the empty string, hence without link.
C4_Witness ==
    /\ Returned("RenderItem")
    /\ out.ret # Null
    /\ input.arg.conferencing = Conferencing(Details(Null), Str(""))
    /\ out.ret.joinMeeting = None

\* --------------------------------------------------- page properties
Rendered == pc = "rendered"

Rows == view.rows

\* The row rendered for the i-th fetched event, if any.
RowsOf(i) == {r \in 1..Len(Rows) : Rows[r].eventId = data[i].id}

StartOf(i) == FirstDefined(StartCandidates(data[i].when))

EndOf(i) == FirstDefined(EndCandidates(data[i].when))

Truthy(v) == v \notin {Undef, Null, Num(0), Str("")}

Positive(v) == v.t = "number" /\ v.n > 0

SingleTime(w) == Positive(w.time)

TimeRange(w) ==
    \/ Positive(w.start_time) /\ Positive(w.end_time)
    \/ Positive(w.start) /\ Positive(w.end)

TimeRangeList(w) ==
    /\ w.times.t = "array"
    /\ Len(w.times.a) >= 1
    /\ Positive(w.times.a[1].start_time) /\ Positive(w.times.a[1].end_time)

DateOnly(w) == w.date # Undef \/ w.dates # Undef

\* C1 (as claimed): every fetched event whose "when" is a single time, a time
\* range, a non-empty list of time ranges or date-only (timestamps positive)
\* gets a start and an end and is rendered as a booking row.
C1_AsClaimed ==
    Rendered =>
      \A i \in 1..Len(data) :
        (\/ SingleTime(data[i].when) \/ TimeRange(data[i].when)
         \/ TimeRangeList(data[i].when) \/ DateOnly(data[i].when))
          => /\ getStartTime(data[i].when) # Null
             /\ getEndTime(data[i].when) # Null
             /\ RowsOf(i) # {}

\* C5 (as claimed): every rendered row is for an event that starts at or after
\* the time of the request.
C5_AsClaimed ==
    Rendered => \A r \in 1..Len(Rows) : Rows[r].from.unix >= now

\* C5 (amended): the page lists past bookings as well as upcoming ones: every
\* fetched event whose start and end are truthy is rendered with its cancel
\* action, also when it ended before the request.
C5_PastAndUpcomingRendered ==
    Rendered =>
      \A i \in 1..Len(data) :
        (Truthy(StartOf(i)) /\ Truthy(EndOf(i))) =>
          \E r \in RowsOf(i) :
            /\ Rows[r].action = "cancelMeetingAction"
            /\ Rows[r].submit = "Cancel Event"
            /\ Rows[r].from.unix = StartOf(i).n
            /\ Rows[r].to.unix = EndOf(i).n

\* C5 witness: a row with a cancel action for an event that ended before the request.
C5_Witness ==
    /\ Rendered
    /\ \E r \in 1..Len(Rows) : Rows[r].to.unix < now /\ Rows[r].submit = "Cancel Event"

\* The indices of the fetched events that pass the start/end filter, in order.
RECURSIVE KeptFrom(_)
KeptFrom(i) ==
    IF i > Len(data) THEN <<>>
    ELSE IF Truthy(StartOf(i)) /\ Truthy(EndOf(i)) THEN <<i>> \o KeptFrom(i + 1)
    ELSE KeptFrom(i + 1)

\* C6: the rows are, in order, exactly the fetched events that pass the
\* start/end filter; each row's hidden eventId (and key) is the id of its own
\* event, and no id appears in two rows.
C6_RowsMatchKeptEvents ==
    Rendered =>
      /\ Len(Rows) = Len(KeptFrom(1))
      /\ \A r \in 1..Len(Rows) :
           /\ Rows[r].eventId = data[KeptFrom(1)[r]].id
           /\ Rows[r].key = Rows[r].eventId
           /\ Rows[r].action = "cancelMeetingAction"
      /\ \A r1 \in 1..Len(Rows), r2 \in 1..Len(Rows) :
           r1 # r2 => Rows[r1].eventId # Rows[r2].eventId

\* C6 witness: the first event is dropped and the second is the only row.
C6_Witness ==
    /\ Rendered
    /\ Len(data) = 2
    /\ KeptFrom(1) = <<2>>
    /\ Len(Rows) = 1
    /\ Rows[1].eventId = data[2].id

Missing(v) == v = Null \/ v = Str("")

\* C7: getData throws "User not found" without a user record, "User grantId not
\* found" when grantId is missing or empty, "User grantEmail not found" when
\* grantId is there and grantEmail is missing or empty; in each case
\* nylas.events.list is not called and nothing is rendered.  When it is called,
\* it is called once, with identifier = grantId and calendarId = grantEmail.
C7_UserGuardsBeforeList ==
    /\ userData = Null =>
         error = Str("User not found") /\ nylasCalls = <<>> /\ view = None
    /\ (userData \notin {None, Null} /\ Missing(userData.grantId)) =>
         error = Str("User grantId not found") /\ nylasCalls = <<>> /\ view = None
    /\ (userData \notin {None, Null} /\ ~Missing(userData.grantId)
          /\ Missing(userData.grantEmail)) =>
         error = Str("User grantEmail not found") /\ nylasCalls = <<>> /\ view = None
    /\ (nylasCalls # <<>> \/ pc \in {"listEvents", "rendered"}) =>
         /\ userData \notin {None, Null}
         /\ ~Missing(userData.grantId) /\ ~Missing(userData.grantEmail)
         /\ Len(nylasCalls) = 1
         /\ nylasCalls[1].identifier = userData.grantId
         /\ nylasCalls[1].calendarId = userData.grantEmail

\* C7 witness: both fields are missing and the grantId error is the one thrown.
C7_Witness ==
    /\ pc = "failed"
    /\ userData \notin {None, Null}
    /\ userData.grantId = Str("")
    /\ userData.grantEmail = Null
    /\ error = Str("User grantId not found")

\* C8 (as claimed): a row is rendered for a fetched event exactly when
\* getStartTime and getEndTime both return a non-null value, a timestamp of 0
\* included.
C8_AsClaimed ==
    Rendered =>
      \A i \in 1..Len(data) :
        RowsOf(i) # {} <=>
          (getStartTime(data[i].when) # Null /\ getEndTime(data[i].when) # Null)

\* C9 (as claimed): the empty state is shown exactly when there is no row to
\* show; the Bookings card is shown only with at least one row.
C9_AsClaimed ==
    Rendered =>
      /\ view.t = "EmptyState" <=> Len(Rows) = 0
      /\ view.t = "Card" => Len(Rows) >= 1

====
